---- MODULE Spec2Model ----
(***************************************************************************)
(* Model of server.py: the image -> OCR text -> script detection ->        *)
(* transliteration -> speech synthesis pipeline behind POST /transliterate *)
(* and the range-aware artifact reader behind GET /audio/<filename>.       *)
(*                                                                         *)
(* Text is a sequence of Unicode codepoints.  A file is a sequence of      *)
(* frames; the artifact directory is a function from paths to files.       *)
(***************************************************************************)
EXTENDS Integers, Sequences, FiniteSets, TLC

VARIABLES
    dText,      \* detect_script: the text handed to it
    dResult,    \* detect_script: the script it returned ("pending" before the call)
    rFile,      \* send_file_partial: the content of the file at `path`
    rHeader,    \* send_file_partial: the request's Range header
    rResp,      \* send_file_partial: the response it built ("pending" before the call)
    inbox,      \* the upload each handling thread has been given
    wk,         \* each handling thread's locals and position in transliterate_image
    fs,         \* the AUDIO_FOLDER directory: path -> file content
    get         \* the response of the GET /audio/<filename> in flight, or NoGet

vars == <<dText, dResult, rFile, rHeader, rResp, inbox, wk, fs, get>>

----------------------------------------------------------------------------
(* Bounds *)

MaxDetectLen == 3       \* longest text handed to detect_script in SpecDetect
MaxFileSize == 4        \* largest file served in SpecRange
MaxRangeVal == 5        \* largest number written in a Range header in SpecRange
MaxOcrLen == 3          \* longest text an uploaded image depicts in SpecPipeline

(* Program constants *)

MaxPieces == 12         \* if len(pieces) > 12
BucketChars == 300      \* if len(tmp) + len(p) > 300

----------------------------------------------------------------------------
(* Codepoints used in the inputs:                                          *)
(*   2344 DEVANAGARI LETTER NA     2453 BENGALI LETTER KA                  *)
(*   97 'a'   110 'n'   32 ' '   10 '\n'   46 '.'   20013 a CJK ideograph  *)

Min(a, b) == IF a < b THEN a ELSE b

RECURSIVE SeqsUpTo(_, _)
SeqsUpTo(S, n) ==
    IF n = 0 THEN {<<>>}
    ELSE LET shorter == SeqsUpTo(S, n - 1)
         IN  shorter \cup {Append(s, c) : s \in {t \in shorter : Len(t) = n - 1}, c \in S}

\* str.isspace for the codepoints of the model
IsSpace(cp) == cp \in {32, 9, 10, 13}

\* the regex class \w (str.isalnum or '_'): letters of any script, digits
IsWord(cp) ==
    \/ cp \in 48..57 \/ cp \in 65..90 \/ cp \in 97..122 \/ cp = 95
    \/ cp \in 2308..2361 \/ cp \in 2437..2489 \/ cp = 20013

RECURSIVE LStrip(_)
LStrip(t) == IF Len(t) > 0 /\ IsSpace(Head(t)) THEN LStrip(Tail(t)) ELSE t

RECURSIVE RStrip(_)
RStrip(t) ==
    IF Len(t) > 0 /\ IsSpace(t[Len(t)]) THEN RStrip(SubSeq(t, 1, Len(t) - 1)) ELSE t

\* str.strip()
Strip(t) == RStrip(LStrip(t))

----------------------------------------------------------------------------
(* detect_script *)

SCRIPT_RANGES == <<
    [script |-> "devanagari", lo |-> 2304, hi |-> 2431],
    [script |-> "bengali",    lo |-> 2432, hi |-> 2559],
    [script |-> "gurmukhi",   lo |-> 2560, hi |-> 2687],
    [script |-> "gujarati",   lo |-> 2688, hi |-> 2815],
    [script |-> "oriya",      lo |-> 2816, hi |-> 2943],
    [script |-> "tamil",      lo |-> 2944, hi |-> 3071],
    [script |-> "telugu",     lo |-> 3072, hi |-> 3199],
    [script |-> "kannada",    lo |-> 3200, hi |-> 3327],
    [script |-> "malayalam",  lo |-> 3328, hi |-> 3455],
    [script |-> "latin",      lo |-> 0,    hi |-> 127] >>

Scripts == {SCRIPT_RANGES[k].script : k \in DOMAIN SCRIPT_RANGES}

\* counts[script] after the scan of lines 77-83, for the k-th script
ScriptCount(text, k) ==
    Cardinality({i \in 1..Len(text) :
        SCRIPT_RANGES[k].lo <= text[i] /\ text[i] <= SCRIPT_RANGES[k].hi})

\* a bug: a later script with an equal count replaces the best so far
RECURSIVE MaxLast(_, _, _)
MaxLast(text, k, best) ==
    IF k > Len(SCRIPT_RANGES) THEN best
    ELSE MaxLast(text, k + 1,
                 IF ScriptCount(text, k) >= ScriptCount(text, best) THEN k ELSE best)

\* max(counts.items(), key=...): the scan keeps the first item whose key is
\* the largest, replacing the best so far only by a strictly larger one
RECURSIVE MaxFirst(_, _, _)
MaxFirst(text, k, best) ==
    IF k > Len(SCRIPT_RANGES) THEN best
    ELSE MaxFirst(text, k + 1,
                  IF ScriptCount(text, k) > ScriptCount(text, best) THEN k ELSE best)

detect_script(text) ==
    IF Len(text) = 0 \/ Len(Strip(text)) = 0 THEN "unknown"
    ELSE LET best == MaxFirst(text, 2, 1)
         IN  IF ScriptCount(text, best) > 0 THEN SCRIPT_RANGES[best].script
             ELSE "unknown"

DetectAlphabet == {2344, 2453, 97, 32, 20013}
DetectTexts == SeqsUpTo(DetectAlphabet, MaxDetectLen)

----------------------------------------------------------------------------
(* schwa_delete_for_devanagari_to_latin *)

\* re.sub(r'a\b', '', t): an 'a' goes when a non-word character or the end follows
RECURSIVE DropSchwa(_, _)
DropSchwa(t, i) ==
    IF i > Len(t) THEN <<>>
    ELSE IF t[i] = 97 /\ (i = Len(t) \/ ~IsWord(t[i + 1])) THEN DropSchwa(t, i + 1)
    ELSE <<t[i]>> \o DropSchwa(t, i + 1)

\* re.sub(r'\s+', ' ', t): each run of whitespace becomes one space
RECURSIVE CollapseSpace(_, _)
CollapseSpace(t, i) ==
    IF i > Len(t) THEN <<>>
    ELSE IF IsSpace(t[i])
         THEN (IF i > 1 /\ IsSpace(t[i - 1]) THEN <<>> ELSE <<32>>) \o CollapseSpace(t, i + 1)
         ELSE <<t[i]>> \o CollapseSpace(t, i + 1)

schwa_delete(t) ==
    IF Len(t) = 0 THEN t ELSE Strip(CollapseSpace(DropSchwa(t, 1), 1))

----------------------------------------------------------------------------
(* SANSCRIPT_MAP, TTS_LANG_MAP and the transliteration engine *)

SANSCRIPT_MAP(script, default) ==
    IF script = "latin" THEN "itrans"
    ELSE IF script \in Scripts THEN script
    ELSE default

TTS_LANG_MAP(script, default) ==
    CASE script = "devanagari" -> "hi"
      [] script = "bengali"    -> "bn"
      [] script = "gurmukhi"   -> "pa"
      [] script = "gujarati"   -> "gu"
      [] script = "oriya"      -> "or"
      [] script = "tamil"      -> "ta"
      [] script = "telugu"     -> "te"
      [] script = "kannada"    -> "kn"
      [] script = "malayalam"  -> "ml"
      [] script = "latin"      -> "en"
      [] OTHER                 -> default

Romanizations == {"itrans", "iast"}

\* indic_transliteration's transliterate when it does not raise, on the
\* codepoints of the model: NA <-> "na", a bare 'a' <-> DEVANAGARI LETTER A
RECURSIVE transliterate(_, _, _)
transliterate(t, from, to) ==
    IF Len(t) = 0 THEN <<>>
    ELSE IF from = "devanagari" /\ to \in Romanizations
         THEN (CASE t[1] = 2344 -> <<110, 97>>
                 [] t[1] = 2309 -> <<97>>
                 [] OTHER       -> <<t[1]>>) \o transliterate(Tail(t), from, to)
    ELSE IF from \in Romanizations /\ to = "devanagari"
         THEN IF t[1] = 110 /\ Len(t) > 1 /\ t[2] = 97
              THEN <<2344>> \o transliterate(SubSeq(t, 3, Len(t)), from, to)
              ELSE (CASE t[1] = 97 -> <<2309>>
                      [] OTHER     -> <<t[1]>>) \o transliterate(Tail(t), from, to)
    ELSE t

----------------------------------------------------------------------------
(* _safe_tts_save_chunks: splitting *)

\* the class [\.\?\!...] of line 129 as the file spells it: . ? ! and the
\* three Latin-1 characters U+00E0 U+00A5 U+00A4
IsTerminator(cp) == cp \in {46, 63, 33, 224, 165, 164}

RECURSIVE SkipSpace(_, _)
SkipSpace(t, i) == IF i <= Len(t) /\ IsSpace(t[i]) THEN SkipSpace(t, i + 1) ELSE i

\* re.split(r'(?<=[.?!...])\s+', t), scanning from i with `cur` the piece so far
RECURSIVE SplitFrom(_, _, _)
SplitFrom(t, i, cur) ==
    IF i > Len(t) THEN <<cur>>
    ELSE IF IsSpace(t[i]) /\ i > 1 /\ IsTerminator(t[i - 1])
         THEN <<cur>> \o SplitFrom(t, SkipSpace(t, i), <<>>)
         ELSE SplitFrom(t, i + 1, Append(cur, t[i]))

\* lines 135-145: greedy re-bucketing
RECURSIVE Rebucket(_, _, _, _)
Rebucket(pieces, k, tmp, joined) ==
    IF k > Len(pieces) THEN (IF Len(tmp) > 0 THEN Append(joined, tmp) ELSE joined)
    ELSE IF Len(tmp) + Len(pieces[k]) > BucketChars
         THEN Rebucket(pieces, k + 1, pieces[k], Append(joined, tmp))
         ELSE Rebucket(pieces, k + 1, Strip(tmp \o <<32>> \o pieces[k]), joined)

Pieces(text) ==
    LET pieces == SplitFrom(text, 1, <<>>)
    IN  IF Len(pieces) > MaxPieces THEN Rebucket(pieces, 1, <<>>, <<>>) ELSE pieces

\* the audio gTTS produces for a text: a header frame, then a frame per character
Audio(text) == <<-1>> \o text

----------------------------------------------------------------------------
(* send_file_partial *)

NoRange == [kind |-> "none", start |-> 0, hasEnd |-> FALSE, end |-> 0]
BadRange == [kind |-> "nomatch", start |-> 0, hasEnd |-> FALSE, end |-> 0]
MatchRange(s, hasEnd, e) == [kind |-> "match", start |-> s, hasEnd |-> hasEnd, end |-> e]

\* f.seek(start); f.read(length) on a buffered binary file
ReadAt(content, start, length) ==
    IF length = -1 THEN SubSeq(content, start + 1, Len(content))
    ELSE SubSeq(content, start + 1, Min(start + length, Len(content)))

\* send_file(path, conditional=True): the whole file
SendFile(content) ==
    [status |-> 200, body |-> content, raised |-> FALSE,
     range_start |-> 0, range_end |-> 0, range_size |-> 0, has_range |-> FALSE,
     content_length |-> Len(content)]

Raised ==
    [status |-> 500, body |-> <<>>, raised |-> TRUE,
     range_start |-> 0, range_end |-> 0, range_size |-> 0, has_range |-> FALSE,
     content_length |-> 0]

\* line 232
PartialLength(start, end) == end - start + 1

send_file_partial(content, header) ==
    LET file_size == Len(content)
        start == header.start
        end == IF header.hasEnd THEN header.end ELSE file_size - 1
        length == PartialLength(start, end)
    IN  IF header.kind # "match" THEN SendFile(content)
        ELSE IF start >= file_size
             THEN [status |-> 416, body |-> <<>>, raised |-> FALSE,
                   range_start |-> 0, range_end |-> 0, range_size |-> 0,
                   has_range |-> FALSE, content_length |-> 0]
        ELSE IF length < -1 THEN Raised     \* f.read: ValueError
        ELSE [status |-> 206, body |-> ReadAt(content, start, length), raised |-> FALSE,
              range_start |-> start, range_end |-> end, range_size |-> file_size,
              has_range |-> TRUE, content_length |-> length]

----------------------------------------------------------------------------
(* The server: uploads, handling threads, the artifact directory *)

Workers == {1, 2}       \* the threads handling POST /transliterate
MaxIds == 2             \* distinct values uuid.uuid4() can take
Ids == 1..MaxIds

NoImage == [kind |-> "empty", text |-> <<>>]
TextImage(t) == [kind |-> "text", text |-> t]
Garbage == [kind |-> "garbage", text |-> <<>>]

Upload(hasFile, filename, image, target) ==
    [present |-> TRUE, hasFile |-> hasFile, filename |-> filename,
     image |-> image, target |-> target]

NoUpload ==
    [present |-> FALSE, hasFile |-> FALSE, filename |-> "", image |-> NoImage,
     target |-> ""]

\* uploads answered 400, and uploads whose bytes are no image
BadUploads ==
    { Upload(FALSE, "", NoImage, ""),
      Upload(TRUE, "", TextImage(<<2344>>), ""),
      Upload(TRUE, "sign.jpg", NoImage, ""),
      Upload(TRUE, "sign.jpg", Garbage, "") }

Targets == {"", "devanagari", "klingon"}
OcrAlphabet == {2344, 97, 32, 46}

\* a sign of thirteen one-character sentences: ". . . . . . . . . . . . ."
ManySentences == [j \in 1..25 |-> IF j % 2 = 1 THEN 46 ELSE 32]

PipelineUploads ==
    BadUploads \cup
    { Upload(TRUE, "sign.jpg", TextImage(ManySentences), "") } \cup
    { Upload(TRUE, "sign.jpg", TextImage(t), tg) :
        t \in SeqsUpTo(OcrAlphabet, MaxOcrLen), tg \in Targets }

\* the uploads of the concurrent server: every kind of upload on thread 1
\* (a blank image, the one-letter text NA), and on every other thread an
\* upload that reaches synthesis (the two-sentence text ". a")
ServerUploads ==
    BadUploads \cup
    { Upload(TRUE, "sign.jpg", TextImage(t), "") : t \in {<<>>, <<2344>>} }

SynthUploads == { Upload(TRUE, "sign.jpg", TextImage(<<46, 32, 97>>), "") }

NoResp ==
    [status |-> 0, original_text |-> <<>>, transliterated_text |-> <<>>,
     detected_script |-> "", target_script |-> "", langCode |-> "",
     audio_url |-> 0, error |-> ""]

ErrorResp(status, msg) == [NoResp EXCEPT !.status = status, !.error = msg]

NoCalls == [ocr |-> 0, engine |-> 0, tts |-> 0]

Fresh ==
    [pc |-> "recv", extracted |-> <<>>, detected |-> "", transliterated |-> <<>>,
     path |-> "",
     out |-> 0, i |-> 0, temp_files |-> <<>>, k |-> 0, audio_filename |-> 0,
     calls |-> NoCalls, resp |-> NoResp]

NoGet == [id |-> 0, resp |-> SendFile(<<>>), pending |-> FALSE]

\* the directory with file p holding c / without the files P
Put(f, p, c) == [q \in DOMAIN f \cup {p} |-> IF q = p THEN c ELSE f[q]]
Remove(f, P) == [q \in DOMAIN f \ P |-> f[q]]
Range(seq) == {seq[j] : j \in DOMAIN seq}

out_path(id) == <<id>>              \* os.path.join(AUDIO_FOLDER, filename)
tmp_name(id, i) == <<id, i>>        \* f"{out_path}.{i}.mp3"

\* line 253
target_script(w) == IF inbox[w].target = "" THEN "latin" ELSE inbox[w].target

from_scheme(w) == SANSCRIPT_MAP(wk[w].detected, "iast")
to_scheme(w) == SANSCRIPT_MAP(target_script(w), "itrans")

\* line 298
tts_lang(w) ==
    TTS_LANG_MAP(wk[w].detected, TTS_LANG_MAP(target_script(w), "en"))

\* line 300
tts_text(w) ==
    IF wk[w].detected # "latin" THEN wk[w].extracted
    ELSE wk[w].transliterated

pieces(w) == Pieces(tts_text(w))

\* the loop of line 149 passes over the pieces that are blank
RECURSIVE NextPiece(_, _)
NextPiece(ps, i) ==
    IF i <= Len(ps) /\ Len(Strip(ps[i])) = 0 THEN NextPiece(ps, i + 1) ELSE i

Step(w, r) == wk' = [wk EXCEPT ![w] = r]

Answer(w, resp) == [wk[w] EXCEPT !.pc = "done", !.resp = resp]

AtRecv(w) == wk[w].pc = "recv" /\ inbox[w].present

Valid(w) ==
    inbox[w].hasFile /\ inbox[w].filename # "" /\ inbox[w].image.kind # "empty"

----------------------------------------------------------------------------
(* transliterate_image, lines 247-273 *)

RejectNoFile(w) ==
    /\ AtRecv(w)
    /\ ~inbox[w].hasFile
    /\ Step(w, Answer(w, ErrorResp(400, "No file uploaded")))
    /\ UNCHANGED <<dText, dResult, rFile, rHeader, rResp, inbox, fs, get>>

RejectEmptyFilename(w) ==
    /\ AtRecv(w)
    /\ inbox[w].hasFile /\ inbox[w].filename = ""
    /\ Step(w, Answer(w, ErrorResp(400, "Empty filename")))
    /\ UNCHANGED <<dText, dResult, rFile, rHeader, rResp, inbox, fs, get>>

\* a bug: the bytes are handed to OCR before they are checked
RejectEmptyFileLate(w) ==
    /\ AtRecv(w)
    /\ inbox[w].hasFile /\ inbox[w].filename # "" /\ inbox[w].image.kind = "empty"
    /\ Step(w, [Answer(w, ErrorResp(400, "Empty file")) EXCEPT !.calls.ocr = 1])
    /\ UNCHANGED <<dText, dResult, rFile, rHeader, rResp, inbox, fs, get>>

RejectEmptyFile(w) ==
    /\ AtRecv(w)
    /\ inbox[w].hasFile /\ inbox[w].filename # "" /\ inbox[w].image.kind = "empty"
    /\ Step(w, Answer(w, ErrorResp(400, "Empty file")))
    /\ UNCHANGED <<dText, dResult, rFile, rHeader, rResp, inbox, fs, get>>

\* perform_ocr_from_bytes: Image.open raises on bytes that are no image, also
\* on the second attempt from a temporary file; the handler answers 500
OcrRaises(w) ==
    /\ AtRecv(w) /\ Valid(w)
    /\ inbox[w].image.kind = "garbage"
    /\ Step(w, [Answer(w, ErrorResp(500, "cannot identify image file"))
                    EXCEPT !.calls.ocr = 1])
    /\ UNCHANGED <<dText, dResult, rFile, rHeader, rResp, inbox, fs, get>>

NoTextResp(w) ==
    [NoResp EXCEPT !.status = 200, !.detected_script = "unknown",
                   !.target_script = target_script(w),
                   !.error = "No text found in image"]

\* OCR yields nothing: the image shows no text, or tesseract failed with
\* both language sets
OcrNoText(w) ==
    /\ AtRecv(w) /\ Valid(w)
    /\ inbox[w].image.kind = "text"
    /\ Step(w, [Answer(w, NoTextResp(w)) EXCEPT !.calls.ocr = 1])
    /\ UNCHANGED <<dText, dResult, rFile, rHeader, rResp, inbox, fs, get>>

\* lines 261-278: OCR finds text; the script is detected
OcrText(w) ==
    /\ AtRecv(w) /\ Valid(w)
    /\ inbox[w].image.kind = "text"
    /\ Len(Strip(inbox[w].image.text)) > 0
    /\ Step(w, [wk[w] EXCEPT !.pc = "translit",
                             !.extracted = Strip(inbox[w].image.text),
                             !.detected = detect_script(Strip(inbox[w].image.text)),
                             !.calls.ocr = 1])
    /\ UNCHANGED <<dText, dResult, rFile, rHeader, rResp, inbox, fs, get>>

----------------------------------------------------------------------------
(* transliterate_image, lines 279-303: transliterate *)

\* lines 294-295
PostProcess(w, t) ==
    IF wk[w].detected = "devanagari" /\ target_script(w) = "latin"
    THEN schwa_delete(t)
    ELSE t

\* the thread's locals once `transliterated` is set; line 303 decides on TTS
Transliterated(w, t, path, ncalls) ==
    LET text == IF wk[w].detected # "latin" THEN wk[w].extracted
                ELSE PostProcess(w, t)
    IN  [wk[w] EXCEPT !.transliterated = PostProcess(w, t),
                      !.path = path,
                      !.calls.engine = ncalls,
                      !.pc = IF Len(Strip(text)) > 0 THEN "tts" ELSE "respond"]

\* a bug: the engine is called although the schemes are equal
TranslitIdentityViaEngine(w) ==
    /\ wk[w].pc = "translit"
    /\ from_scheme(w) = to_scheme(w)
    /\ Step(w, Transliterated(w, wk[w].extracted, "identity", 1))
    /\ UNCHANGED <<dText, dResult, rFile, rHeader, rResp, inbox, fs, get>>

\* lines 280-281
TranslitIdentity(w) ==
    /\ wk[w].pc = "translit"
    /\ from_scheme(w) = to_scheme(w)
    /\ Step(w, Transliterated(w, wk[w].extracted, "identity", 0))
    /\ UNCHANGED <<dText, dResult, rFile, rHeader, rResp, inbox, fs, get>>

\* line 283, the engine returns
TranslitDirect(w) ==
    /\ wk[w].pc = "translit"
    /\ from_scheme(w) # to_scheme(w)
    /\ Step(w, Transliterated(w,
                 transliterate(wk[w].extracted, from_scheme(w), to_scheme(w)),
                 "direct", 1))
    /\ UNCHANGED <<dText, dResult, rFile, rHeader, rResp, inbox, fs, get>>

\* line 283 raises, lines 287-288 return
TranslitTwoHop(w) ==
    /\ wk[w].pc = "translit"
    /\ from_scheme(w) # to_scheme(w)
    /\ Step(w, Transliterated(w,
                 transliterate(transliterate(wk[w].extracted, from_scheme(w), "iast"),
                               "iast", to_scheme(w)),
                 "twohop", 3))
    /\ UNCHANGED <<dText, dResult, rFile, rHeader, rResp, inbox, fs, get>>

\* line 283 raises and so does line 287 or 288: line 291
TranslitPassThrough(w) ==
    /\ wk[w].pc = "translit"
    /\ from_scheme(w) # to_scheme(w)
    /\ \E hops \in {2, 3} :
         Step(w, Transliterated(w, wk[w].extracted, "passthrough", hops))
    /\ UNCHANGED <<dText, dResult, rFile, rHeader, rResp, inbox, fs, get>>

----------------------------------------------------------------------------
(* generate_tts_audio and _safe_tts_save_chunks *)

\* a bug: identifiers that repeat
AnyIds == Ids

\* uuid.uuid4(): a value no other request has drawn
FreshIds == Ids \ {wk[v].out : v \in Workers}

\* lines 190-192
GenerateId(w) ==
    /\ wk[w].pc = "tts"
    /\ \E id \in FreshIds : Step(w, [wk[w] EXCEPT !.pc = "synth", !.out = id])
    /\ UNCHANGED <<dText, dResult, rFile, rHeader, rResp, inbox, fs, get>>

\* line 195 or the request behind line 196 raises before the file is opened
DirectRaiseEarly(w) ==
    /\ wk[w].pc = "synth"
    /\ Step(w, [wk[w] EXCEPT !.pc = "chunk", !.calls.tts = 1,
                             !.i = NextPiece(pieces(w), 1)])
    /\ UNCHANGED <<dText, dResult, rFile, rHeader, rResp, inbox, fs, get>>

\* line 196, gTTS.save: opens out_path for writing
DirectOpen(w) ==
    /\ wk[w].pc = "synth"
    /\ fs' = Put(fs, out_path(wk[w].out), <<>>)
    /\ Step(w, [wk[w] EXCEPT !.pc = "direct", !.calls.tts = 1])
    /\ UNCHANGED <<dText, dResult, rFile, rHeader, rResp, inbox, get>>

\* line 196, gTTS.save: the next frame of the audio reaches the file
DirectWrite(w) ==
    LET p == out_path(wk[w].out)
        audio == Audio(tts_text(w))
    IN  /\ wk[w].pc = "direct"
        /\ Len(fs[p]) < Len(audio)
        /\ fs' = Put(fs, p, Append(fs[p], audio[Len(fs[p]) + 1]))
        /\ UNCHANGED <<dText, dResult, rFile, rHeader, rResp, inbox, wk, get>>

\* line 196, gTTS.save raises with the file open: lines 199-202
DirectRaise(w) ==
    /\ wk[w].pc = "direct"
    /\ Len(fs[out_path(wk[w].out)]) < Len(Audio(tts_text(w)))
    /\ Step(w, [wk[w] EXCEPT !.pc = "chunk", !.i = NextPiece(pieces(w), 1)])
    /\ UNCHANGED <<dText, dResult, rFile, rHeader, rResp, inbox, fs, get>>

\* lines 196-198: the save returns and the file exists
DirectClose(w) ==
    /\ wk[w].pc = "direct"
    /\ fs[out_path(wk[w].out)] = Audio(tts_text(w))
    /\ Step(w, [wk[w] EXCEPT !.pc = "respond", !.audio_filename = wk[w].out])
    /\ UNCHANGED <<dText, dResult, rFile, rHeader, rResp, inbox, fs, get>>

\* lines 153-157: the piece is synthesized and saved
ChunkSave(w) ==
    LET ps == pieces(w)
        i == wk[w].i
        name == tmp_name(wk[w].out, i)
    IN  /\ wk[w].pc = "chunk"
        /\ i <= Len(ps)
        /\ fs' = Put(fs, name, Audio(Strip(ps[i])))
        /\ Step(w, [wk[w] EXCEPT !.temp_files = Append(@, name),
                                 !.calls.tts = @ + 1,
                                 !.i = NextPiece(ps, i + 1)])
        /\ UNCHANGED <<dText, dResult, rFile, rHeader, rResp, inbox, get>>

\* the files at the names of temp_files are removed, lines 161-165 and 174-178
Cleanup(f, temp_files) == Remove(f, Range(temp_files))

\* lines 155-166: gTTS raises for the piece, before its file is opened
\* (n = -1) or with n frames of it written; the handler removes temp_files
ChunkRaise(w) ==
    LET ps == pieces(w)
        i == wk[w].i
        name == tmp_name(wk[w].out, i)
        audio == Audio(Strip(ps[i]))
    IN  /\ wk[w].pc = "chunk"
        /\ i <= Len(ps)
        /\ \E n \in -1..(Len(audio) - 1) :
             fs' = Cleanup(IF n = -1 THEN fs ELSE Put(fs, name, SubSeq(audio, 1, n)),
                           wk[w].temp_files)
        /\ Step(w, [wk[w] EXCEPT !.pc = "respond", !.calls.tts = @ + 1,
                                 !.audio_filename = 0])
        /\ UNCHANGED <<dText, dResult, rFile, rHeader, rResp, inbox, get>>

\* line 169: out_path is opened for writing
MergeOpen(w) ==
    /\ wk[w].pc = "chunk"
    /\ wk[w].i > Len(pieces(w))
    /\ fs' = Put(fs, out_path(wk[w].out), <<>>)
    /\ Step(w, [wk[w] EXCEPT !.pc = "merge", !.k = 1])
    /\ UNCHANGED <<dText, dResult, rFile, rHeader, rResp, inbox, get>>

\* a bug: the chunks are merged last first
MergeSourceReversed(temp_files, k) == temp_files[Len(temp_files) + 1 - k]

\* line 170: the k-th file of the merge
MergeSource(temp_files, k) == temp_files[k]

\* lines 170-172: the next temporary file is appended
MergeWrite(w) ==
    LET p == out_path(wk[w].out)
    IN  /\ wk[w].pc = "merge"
        /\ wk[w].k <= Len(wk[w].temp_files)
        /\ fs' = Put(fs, p, fs[p] \o fs[MergeSource(wk[w].temp_files, wk[w].k)])
        /\ Step(w, [wk[w] EXCEPT !.k = @ + 1])
        /\ UNCHANGED <<dText, dResult, rFile, rHeader, rResp, inbox, get>>

\* lines 174-179 and 203-204
MergeDone(w) ==
    /\ wk[w].pc = "merge"
    /\ wk[w].k > Len(wk[w].temp_files)
    /\ fs' = Cleanup(fs, wk[w].temp_files)
    /\ Step(w, [wk[w] EXCEPT !.pc = "respond", !.audio_filename = wk[w].out])
    /\ UNCHANGED <<dText, dResult, rFile, rHeader, rResp, inbox, get>>

\* a bug: a failed synthesis is answered as a server error
RespondEscalating(w) ==
    /\ wk[w].pc = "respond"
    /\ Step(w, Answer(w,
         IF wk[w].audio_filename = 0 THEN ErrorResp(500, "TTS failed")
         ELSE [status |-> 200, original_text |-> wk[w].extracted,
               transliterated_text |-> wk[w].transliterated,
               detected_script |-> wk[w].detected,
               target_script |-> target_script(w), langCode |-> tts_lang(w),
               audio_url |-> wk[w].audio_filename, error |-> ""]))
    /\ UNCHANGED <<dText, dResult, rFile, rHeader, rResp, inbox, fs, get>>

\* lines 306-330.  audio_url is modelled by the file it names (0 for '');
\* the host put in front of it is left out
Respond(w) ==
    /\ wk[w].pc = "respond"
    /\ Step(w, Answer(w,
         [status |-> 200, original_text |-> wk[w].extracted,
          transliterated_text |-> wk[w].transliterated,
          detected_script |-> wk[w].detected,
          target_script |-> target_script(w), langCode |-> tts_lang(w),
          audio_url |-> wk[w].audio_filename, error |-> ""]))
    /\ UNCHANGED <<dText, dResult, rFile, rHeader, rResp, inbox, fs, get>>

----------------------------------------------------------------------------
(* serve_audio *)

NotFound == [SendFile(<<>>) EXCEPT !.status = 404]

GetHeaders == {NoRange, MatchRange(0, TRUE, 0)}

serve_audio(id, header) ==
    IF out_path(id) \notin DOMAIN fs THEN NotFound
    ELSE LET r == send_file_partial(fs[out_path(id)], header)
         IN  IF r.raised THEN Raised ELSE r

ServeAudio ==
    /\ ~get.pending
    /\ \E id \in Ids, header \in GetHeaders :
         get' = [id |-> id, resp |-> serve_audio(id, header), pending |-> TRUE]
    /\ UNCHANGED <<dText, dResult, rFile, rHeader, rResp, inbox, wk, fs>>

\* the response leaves the server
DeliverAudio ==
    /\ get.pending
    /\ get' = NoGet
    /\ UNCHANGED <<dText, dResult, rFile, rHeader, rResp, inbox, wk, fs>>

----------------------------------------------------------------------------
(* Specifications *)

PendingResp == [SendFile(<<>>) EXCEPT !.status = 0]
EmptyDir == [q \in {} |-> <<>>]

IdleServer ==
    /\ inbox = [w \in Workers |-> NoUpload]
    /\ wk = [w \in Workers |-> Fresh]
    /\ fs = EmptyDir
    /\ get = NoGet

IdleDetect == dText = <<>> /\ dResult = "pending"
IdleRange == rFile = <<>> /\ rHeader = NoRange /\ rResp = PendingResp

Handle(w) ==
    \/ RejectNoFile(w) \/ RejectEmptyFilename(w) \/ RejectEmptyFile(w)
    \/ OcrRaises(w) \/ OcrNoText(w) \/ OcrText(w)
    \/ TranslitIdentity(w) \/ TranslitDirect(w) \/ TranslitTwoHop(w)
    \/ TranslitPassThrough(w)
    \/ GenerateId(w) \/ DirectRaiseEarly(w) \/ DirectOpen(w) \/ DirectWrite(w)
    \/ DirectRaise(w) \/ DirectClose(w)
    \/ ChunkSave(w) \/ ChunkRaise(w) \/ MergeOpen(w) \/ MergeWrite(w) \/ MergeDone(w)
    \/ Respond(w)

\* the server under concurrent uploads and reads
Init ==
    /\ IdleDetect /\ IdleRange
    /\ inbox \in {f \in [Workers -> ServerUploads \cup SynthUploads] :
                    /\ f[1] \in ServerUploads
                    /\ \A w \in Workers \ {1} : f[w] \in SynthUploads}
    /\ wk = [w \in Workers |-> Fresh]
    /\ fs = EmptyDir
    /\ get = NoGet

Next == (\E w \in Workers : Handle(w)) \/ ServeAudio \/ DeliverAudio

Spec == Init /\ [][Next]_vars

\* one upload through the whole pipeline
InitPipeline ==
    /\ IdleDetect /\ IdleRange
    /\ \E u \in PipelineUploads : inbox = [w \in Workers |-> IF w = 1 THEN u ELSE NoUpload]
    /\ wk = [w \in Workers |-> Fresh]
    /\ fs = EmptyDir
    /\ get = NoGet

NextPipeline == \E w \in Workers : Handle(w)

SpecPipeline == InitPipeline /\ [][NextPipeline]_vars

\* detect_script on every text of the bound
InitDetect == IdleServer /\ IdleRange /\ dText \in DetectTexts /\ dResult = "pending"

Detect ==
    /\ dResult = "pending"
    /\ dResult' = detect_script(dText)
    /\ UNCHANGED <<dText, rFile, rHeader, rResp, inbox, wk, fs, get>>

NextDetect == Detect

SpecDetect == InitDetect /\ [][NextDetect]_vars

\* send_file_partial on every file and Range header of the bounds
RangeHeaders ==
    {NoRange, BadRange}
    \cup {MatchRange(s, FALSE, 0) : s \in 0..MaxRangeVal}
    \cup {MatchRange(s, TRUE, e) : s \in 0..MaxRangeVal, e \in 0..MaxRangeVal}

InitRange ==
    /\ IdleServer /\ IdleDetect
    /\ rFile \in {[j \in 1..n |-> j] : n \in 0..MaxFileSize}
    /\ rHeader \in RangeHeaders
    /\ rResp = PendingResp

Serve ==
    /\ rResp = PendingResp
    /\ rResp' = send_file_partial(rFile, rHeader)
    /\ UNCHANGED <<dText, dResult, rFile, rHeader, inbox, wk, fs, get>>

NextRange == Serve

SpecRange == InitRange /\ [][NextRange]_vars

----------------------------------------------------------------------------
(* Properties *)

Blank(text) == \A j \in 1..Len(text) : IsSpace(text[j])

\* C6: detect_script returns "unknown" for an empty or all-whitespace text
\* and for a text with no character in any script's range; otherwise it
\* returns a script whose count is the highest, and of several with the
\* highest count the earliest of SCRIPT_RANGES.
C6_DetectMaxEarliest ==
    dResult # "pending" =>
        IF Blank(dText) \/ \A k \in DOMAIN SCRIPT_RANGES : ScriptCount(dText, k) = 0
        THEN dResult = "unknown"
        ELSE \E k \in DOMAIN SCRIPT_RANGES :
               /\ dResult = SCRIPT_RANGES[k].script
               /\ \A j \in DOMAIN SCRIPT_RANGES :
                    /\ ScriptCount(dText, j) <= ScriptCount(dText, k)
                    /\ j < k => ScriptCount(dText, j) < ScriptCount(dText, k)

\* a tie between devanagari and latin, settled for devanagari
C6_Witness == dText = <<97, 2344>> /\ dResult = "devanagari"

\* C3: for a Range header that matches with start < file size, the response
\* is 206, its body the end-start+1 bytes of the file from offset start,
\* Content-Length the length of the body, Content-Range start-end/size.
C3_RangeExact ==
    (rResp # PendingResp /\ rHeader.kind = "match" /\ rHeader.start < Len(rFile)) =>
        LET end == IF rHeader.hasEnd THEN rHeader.end ELSE Len(rFile) - 1
        IN  /\ rResp.status = 206
            /\ Len(rResp.body) = end - rHeader.start + 1
            /\ \A j \in 1..Len(rResp.body) :
                 /\ rHeader.start + j <= Len(rFile)
                 /\ rResp.body[j] = rFile[rHeader.start + j]
            /\ rResp.content_length = Len(rResp.body)
            /\ rResp.has_range
            /\ rResp.range_start = rHeader.start
            /\ rResp.range_end = end
            /\ rResp.range_size = Len(rFile)


\* the upload is one of those line 247, 250 or 257 turns away
Malformed(w) ==
    inbox[w].present /\
    (~inbox[w].hasFile \/ inbox[w].filename = "" \/ inbox[w].image.kind = "empty")

\* C7: an upload with no file part, an empty filename or empty content is
\* answered 400 with a non-empty error, before any OCR, transliteration or
\* synthesis call and without any artifact file being created.
C7_RejectedBeforeWork ==
    \A w \in Workers : Malformed(w) =>
        /\ wk[w].pc \in {"recv", "done"}
        /\ wk[w].calls = NoCalls
        /\ wk[w].out = 0
        /\ DOMAIN fs = {}
        /\ wk[w].pc = "done" => wk[w].resp.status = 400 /\ wk[w].resp.error # ""

\* an upload with a file part and a filename but no bytes has been answered
C7_Witness ==
    \E w \in Workers :
        /\ wk[w].pc = "done" /\ wk[w].resp.status = 400
        /\ inbox[w].hasFile /\ inbox[w].filename # "" /\ inbox[w].image.kind = "empty"

\* generate_tts_audio ran and returned '': the direct and the chunked synthesis failed
SynthesisFailed(w) ==
    wk[w].pc \in {"respond", "done"} /\ wk[w].calls.tts >= 2 /\ wk[w].audio_filename = 0

\* C8: for a well-formed upload on which OCR ran, the answer is 200: with a
\* non-empty error when OCR found no text; with empty audio_url and empty
\* error when text was found and both syntheses failed; and a 200 answer has
\* a non-empty error only when no text was found.
C8_DegradedIs200 ==
    \A w \in Workers :
        (wk[w].pc = "done" /\ inbox[w].present /\ ~Malformed(w)
         /\ inbox[w].image.kind = "text") =>
            /\ wk[w].resp.status = 200
            /\ wk[w].extracted = <<>> =>
                 wk[w].resp.error # "" /\ wk[w].resp.audio_url = 0
            /\ (wk[w].extracted # <<>> /\ SynthesisFailed(w)) =>
                 wk[w].resp.audio_url = 0 /\ wk[w].resp.error = ""
            /\ wk[w].resp.error # "" =>
                 wk[w].extracted = <<>> /\ wk[w].resp.original_text = <<>>

\* text was found, both syntheses failed and the upload has been answered
C8_Witness ==
    \E w \in Workers :
        /\ wk[w].pc = "done" /\ wk[w].extracted # <<>> /\ SynthesisFailed(w)
        /\ wk[w].resp.status = 200

\* C9: when the source and the target scheme are equal the transliterated
\* text is the extracted text, unchanged, and the engine was not called.
C9_IdentityShortCircuit ==
    \A w \in Workers :
        (wk[w].pc \notin {"recv", "translit"} /\ wk[w].extracted # <<>>
         /\ from_scheme(w) = to_scheme(w)) =>
            /\ wk[w].transliterated = wk[w].extracted
            /\ wk[w].calls.engine = 0
            /\ wk[w].pc = "done" => wk[w].resp.transliterated_text = wk[w].extracted

\* Latin "na a" to latin: a text schwa deletion would have changed
C9_Witness ==
    \E w \in Workers :
        /\ wk[w].pc = "done" /\ wk[w].extracted = <<97, 32, 97>>
        /\ from_scheme(w) = to_scheme(w)
        /\ wk[w].resp.status = 200

\* the audio of the pieces from the j-th on, one after the other
RECURSIVE ConcatAudio(_, _)
ConcatAudio(ps, j) ==
    IF j > Len(ps) THEN <<>>
    ELSE (IF Len(Strip(ps[j])) = 0 THEN <<>> ELSE Audio(Strip(ps[j])))
         \o ConcatAudio(ps, j + 1)

\* C5: when every chunk of the chunked path was synthesized, the final
\* artifact is the chunks' audio concatenated in the order of the pieces,
\* the result is the artifact, and no temporary file remains.
C5_MergeConcatenates ==
    \A w \in Workers :
        (wk[w].pc \in {"respond", "done"} /\ wk[w].k > 0) =>
            /\ out_path(wk[w].out) \in DOMAIN fs
            /\ fs[out_path(wk[w].out)] = ConcatAudio(pieces(w), 1)
            /\ wk[w].audio_filename = wk[w].out
            /\ \A p \in DOMAIN fs : Len(p) = 1
            /\ wk[w].pc = "done" => wk[w].resp.audio_url = wk[w].out

\* two chunks were merged and the upload has been answered
C5_Witness ==
    \E w \in Workers :
        /\ wk[w].pc = "done" /\ wk[w].k > 0 /\ Len(wk[w].temp_files) = 2
        /\ wk[w].resp.audio_url # 0

\* C2: when the synthesis of a chunk fails, the result is absent, and neither
\* the final artifact path nor any temporary chunk file of the attempt is
\* left in the directory.
C2_ChunkFailureLeavesNothing ==
    \A w \in Workers :
        (SynthesisFailed(w) /\ wk[w].out # 0) =>
            /\ wk[w].audio_filename = 0
            /\ \A p \in DOMAIN fs : p[1] # wk[w].out

\* C4: when the engine fails directly and in the two-hop fallback, the
\* transliterated text of the result is the extracted text, unmodified and
\* not blank, and the upload is answered 200 with an empty error.
C4_PassThroughUnmodified ==
    \A w \in Workers :
        wk[w].path = "passthrough" =>
            /\ wk[w].transliterated = wk[w].extracted
            /\ Len(Strip(wk[w].transliterated)) > 0
            /\ wk[w].pc = "done" =>
                 /\ wk[w].resp.status = 200 /\ wk[w].resp.error = ""
                 /\ wk[w].resp.transliterated_text = wk[w].extracted

\* generate_tts_audio has returned the file's name
Complete(id) == \E w \in Workers : wk[w].audio_filename = id

\* C1: a GET /audio/X that finds the file is answered from the complete
\* artifact, never from one still being written.
C1_NoPartialRead ==
    (get.pending /\ get.resp.status \in {200, 206}) => Complete(get.id)

\* a response carrying the audio_url of X has been produced
Published(id) == \E w \in Workers : wk[w].pc = "done" /\ wk[w].resp.audio_url = id

\* C10: once X is published, every step leaves the file of X in place with
\* its content unchanged, and a GET /audio/X is not answered 404.
C10_PublishedArtifactStable ==
    [][\A id \in Ids : Published(id) =>
          /\ out_path(id) \in DOMAIN fs
          /\ out_path(id) \in DOMAIN fs'
          /\ fs'[out_path(id)] = fs[out_path(id)]
          /\ (~get.pending /\ get'.pending /\ get'.id = id) =>
                get'.resp.status \in {200, 206}]_vars

\* X is published, another upload is writing its artifact, and a GET of X
\* has been answered
C10_Witness ==
    \E w, v \in Workers :
        /\ w # v /\ wk[w].pc = "done" /\ wk[w].resp.audio_url # 0
        /\ wk[v].pc = "direct" /\ fs[out_path(wk[v].out)] # <<>>
        /\ get.pending /\ get.id = wk[w].resp.audio_url /\ get.resp.status = 200

====
